---- MODULE Spec2Model ----
(***************************************************************************)
(* c10/util/tempfile.h: RAII temporary files and directories.              *)
(*                                                                         *)
(* Strings and paths are sequences of one-character strings, so that the   *)
(* path arithmetic of make_filename (operator/=, operator+=) and the       *)
(* in-place completion of the "XXXXXX" pattern by mkstemp/mkdtemp are      *)
(* computed, not assumed.                                                  *)
(***************************************************************************)
EXTENDS Integers, Sequences, FiniteSets, TLC

\* ------------------------------------------------------------------ bounds
\* Number of storage locations that can hold a TempFile / TempDir value.
MaxObjs == 2
\* mkstemp/mkdtemp draw the random part from Suffix(0) .. Suffix(MaxSuffix).
MaxSuffix == 1
\* tmpnam_s may be called while fewer than this many names were generated.
MaxTmpnam == 2
\* Largest number of lost creation races within one fallback call made as
\* a single step (SpecWin, one attempt a step, goes up to all 100).
MaxRaces == 1

\* --------------------------------------------------------------- constants
\* for (int i = 0; i < 100; i++)
MaxAttempts == 100
\* TempFile(const std::filesystem::path& name, int fd = -1)
NoFd == -1
\* Descriptors 0, 1, 2 are the standard streams; open() returns the lowest
\* free one.
FirstFd == 3

\* ----------------------------------------------------------------- strings
Tmp == <<"/", "t", "m", "p">>
ReadOnlyDir == <<"/", "r", "o">>
Empty == <<>>
kRandomPattern == <<"X", "X", "X", "X", "X", "X">>
env_variables == <<"TMPDIR", "TMP", "TEMP", "TEMPDIR">>

\* Caller-supplied prefixes that are valid as one path component.
Prefixes == {<<"f", "-">>, <<"d">>}
\* The prefix the lifecycle specification calls the factories with: files and
\* directories made with one prefix compete for the same names.
MainPrefixes == {<<"f", "-">>}

\* Values an environment variable can be set to.
EnvValues == {Empty, Tmp, ReadOnlyDir}

\* Directories of the machine in which this process may create entries:
\* /tmp and the current directory (the empty path).  /ro exists but is not
\* writable, which forces every creation below it to fail.
WritableDirs == {Tmp, Empty}

Digit(n) == <<"0", "1", "2", "3", "4", "5", "6", "7", "8", "9">>[n + 1]

RECURSIVE Digits(_)
Digits(n) == IF n < 10 THEN <<Digit(n)>> ELSE Digits(n \div 10) \o <<Digit(n % 10)>>

RECURSIVE PadLeft(_, _)
PadLeft(s, w) == IF Len(s) >= w THEN s ELSE PadLeft(<<"0">> \o s, w)

\* The characters the OS writes over the "XXXXXX" placeholder.
Suffix(k) == PadLeft(Digits(k), Len(kRandomPattern))

EndsWith(s, t) ==
    /\ Len(s) >= Len(t)
    /\ SubSeq(s, Len(s) - Len(t) + 1, Len(s)) = t

Contains(s, t) ==
    \E i \in 1..(Len(s) - Len(t) + 1) : SubSeq(s, i, i + Len(t) - 1) = t

\* Index of the last '/' of p, 0 when it has none.
RECURSIVE LastSlash(_, _)
LastSlash(p, i) ==
    IF i = 0 THEN 0 ELSE IF p[i] = "/" THEN i ELSE LastSlash(p, i - 1)

\* std::filesystem::path::filename and parent_path (POSIX).
FinalComponent(p) == SubSeq(p, LastSlash(p, Len(p)) + 1, Len(p))
ParentPath(p) ==
    LET i == LastSlash(p, Len(p)) IN IF i <= 1 THEN SubSeq(p, 1, i) ELSE SubSeq(p, 1, i - 1)

\* std::filesystem::path::operator/= (POSIX): an absolute right-hand side
\* replaces the path; otherwise a separator is added when the left-hand
\* side has a filename, and the right-hand side is appended.
PathAppend(lhs, p) ==
    IF Len(p) > 0 /\ p[1] = "/" THEN p
    ELSE IF Len(lhs) > 0 /\ lhs[Len(lhs)] # "/" THEN lhs \o <<"/">> \o p
    ELSE lhs \o p

\* ------------------------------------------------------------- environment
Unset == [set |-> FALSE, val |-> Empty]
SetTo(v) == [set |-> TRUE, val |-> v]
\* getenv(variable): the variable's value, or a null pointer (set = FALSE).
getenv(e, variable) == e[variable]

EnvVarNames == {env_variables[i] : i \in 1..Len(env_variables)}
AllEnvs == [EnvVarNames -> {Unset} \cup {SetTo(v) : v \in EnvValues}]
NoEnv == [v \in EnvVarNames |-> Unset]

\* The loop of make_filename without its break: a later variable that is
\* set overwrites an earlier one.
RECURSIVE tmp_directory_nobreak(_, _, _)
tmp_directory_nobreak(e, i, dir) ==
    IF i > Len(env_variables) THEN dir
    ELSE IF getenv(e, env_variables[i]).set
         THEN tmp_directory_nobreak(e, i + 1, getenv(e, env_variables[i]).val)
         ELSE tmp_directory_nobreak(e, i + 1, dir)

\* for (variable : env_variables) if (path = getenv(variable)) { tmp_directory = path; break; }
RECURSIVE tmp_directory_loop(_, _, _)
tmp_directory_loop(e, i, dir) ==
    IF i > Len(env_variables) THEN dir
    ELSE IF getenv(e, env_variables[i]).set
         THEN getenv(e, env_variables[i]).val
         ELSE tmp_directory_loop(e, i + 1, dir)

tmp_directory_last_wins(e) == tmp_directory_nobreak(e, 1, Tmp)

\* std::string tmp_directory = "/tmp"; followed by the loop.
tmp_directory(e) == tmp_directory_loop(e, 1, Tmp)

\* detail::make_filename(name_prefix), !defined(_WIN32).
make_filename(name_prefix, e) ==
    PathAppend(tmp_directory(e), name_prefix) \o kRandomPattern

\* ------------------------------------------------------------------- state
VARIABLES
    platform,     \* "posix" or "win32": which #if branch the build compiled
    env,          \* the process environment read by getenv
    files,        \* paths of the regular files that exist
    dirs,         \* paths of the directories created so far that exist
    openFds,      \* open file descriptors of the process
    tmpnamCount,  \* number of names tmpnam_s has generated
    objs,         \* storage location -> the TempFile / TempDir value in it
    last,         \* the last operation: its arguments and what it returned
    returned,     \* paths returned so far by successful make_tempfile calls
    loop          \* position of a try_make_tempdir call run step by step

vars == <<platform, env, files, dirs, openFds, tmpnamCount, objs, last, returned, loop>>

Slots == 1..MaxObjs

\* The part of the machine the OS calls read and change.
OsState == [files |-> files, dirs |-> dirs, fds |-> openFds, tmpnam |-> tmpnamCount]

Exists(os, p) == p \in os.files \cup os.dirs

\* ---------------------------------------------------------------- OS calls
\* open() and mkstemp() return the lowest descriptor that is not open.
RECURSIVE LowestFd(_, _)
LowestFd(fds, n) == IF n \in fds THEN LowestFd(fds, n + 1) ELSE n

Complete(template, k) ==
    SubSeq(template, 1, Len(template) - Len(kRandomPattern)) \o Suffix(k)

\* What the OS may answer to mkstemp/mkdtemp(template): -1 is a refusal
\* (EACCES, EMFILE, ENOSPC, EEXIST once every name is taken, ...); k >= 0 is
\* the random part it chose, which never names an existing entry and needs a
\* writable parent directory.
CreateChoices(template, os) ==
    {-1} \cup {k \in 0..MaxSuffix :
                  /\ ParentPath(template) \in WritableDirs
                  /\ ~Exists(os, Complete(template, k))}

\* mkstemp(filename.data()): completes the pattern in place, creates the
\* file exclusively and opens it.
mkstemp(template, os, k) ==
    IF k < 0 \/ ~EndsWith(template, kRandomPattern)
    THEN [fd |-> -1, name |-> template, os |-> os]
    ELSE LET fd == LowestFd(os.fds, FirstFd)
             name == Complete(template, k)
         IN  [fd |-> fd, name |-> name,
              os |-> [os EXCEPT !.files = @ \cup {name}, !.fds = @ \cup {fd}]]

\* mkdtemp(filename.data()): completes the pattern in place and creates the
\* directory; a null pointer (ok = FALSE) on failure.
mkdtemp(template, os, k) ==
    IF k < 0 \/ ~EndsWith(template, kRandomPattern)
    THEN [ok |-> FALSE, name |-> template, os |-> os]
    ELSE LET name == Complete(template, k)
         IN  [ok |-> TRUE, name |-> name, os |-> [os EXCEPT !.dirs = @ \cup {name}]]

\* std::filesystem::remove(name): removes the file or (empty) directory at
\* name, and does nothing when there is none.
fs_remove(name, os) ==
    [os EXCEPT !.files = @ \ {name}, !.dirs = @ \ {name}]

\* close(fd)
close(fd, os) == [os EXCEPT !.fds = @ \ {fd}]

\* The name tmpnam_s generates on its n-th call: a different string each
\* time it is called.
WinName(n) == <<"s">> \o Digits(n)

\* tmpnam_s(name, L_tmpnam_s): res # 0 on failure.
tmpnam_s(os, fail) ==
    IF fail THEN [res |-> 1, name |-> Empty, os |-> os]
    ELSE [res |-> 0, name |-> WinName(os.tmpnam), os |-> [os EXCEPT !.tmpnam = @ + 1]]

\* std::filesystem::create_directories(dirname, ec) followed by
\* GetLastError(): "created" makes the directory; "exists" is the lost race
\* (another process made an entry of that name after tmpnam_s chose it);
\* "error" is any other failure.
create_directories(dirname, os, outcome) ==
    CASE outcome = "created" ->
            [created |-> TRUE, lastError |-> "ERROR_SUCCESS",
             os |-> [os EXCEPT !.dirs = @ \cup {dirname}]]
      [] outcome = "exists" ->
            [created |-> FALSE, lastError |-> "ERROR_ALREADY_EXISTS", os |-> os]
      [] OTHER ->
            [created |-> FALSE, lastError |-> "ERROR_ACCESS_DENIED", os |-> os]

\* ------------------------------------------------------------------ values
\* A storage location that holds no value (never constructed, or destroyed).
NoObj == [kind |-> "none"]

\* TempFile(const std::filesystem::path& name, int fd = -1)
TempFile(name, fd) == [kind |-> "TempFile", fd |-> fd, name |-> name]

\* explicit TempDir(std::filesystem::path name)
TempDir(name) == [kind |-> "TempDir", name |-> name]

nullopt(os) == [has_value |-> FALSE, value |-> NoObj, os |-> os]
some(v, os) == [has_value |-> TRUE, value |-> v, os |-> os]

\* --------------------------------------------------------- TempFile, TempDir
\* The special members work on the memory mem (storage location -> value),
\* statement by statement, so that self and other may be the same location.

\* TempFile(TempFile&& other): fd(other.fd), name(std::move(other.name))
\* { other.fd = -1; }   A moved-from std::string is left empty by libstdc++,
\* libc++ and the MSVC library alike.
TempFile_move_ctor(mem, self, other) ==
    LET m1 == [mem EXCEPT ![self] = TempFile(mem[other].name, mem[other].fd)]
        m2 == [m1 EXCEPT ![other].name = Empty]
    IN  [m2 EXCEPT ![other].fd = NoFd]

\* TempFile& operator=(TempFile&& other)
TempFile_move_assign(mem, self, other) ==
    LET m1 == [mem EXCEPT ![self].fd = mem[other].fd]
        m2 == [m1 EXCEPT ![other].fd = NoFd]
        m3 == [m2 EXCEPT ![self].name = m2[other].name]
    IN  [m3 EXCEPT ![other].name = Empty]

\* ~TempFile() that removes the file and leaves the descriptor open.
TempFile_dtor_noclose(obj, os, plat) ==
    IF obj.name # Empty THEN fs_remove(obj.name, os) ELSE os

\* ~TempFile()
TempFile_dtor(obj, os, plat) ==
    IF obj.name # Empty
    THEN LET removed == fs_remove(obj.name, os)
         IN  IF plat = "posix" /\ obj.fd >= 0 THEN close(obj.fd, removed) ELSE removed
    ELSE os

\* A TempDir move constructor that copies the name and leaves the source's.
TempDir_move_ctor_copy(mem, self, other) ==
    [mem EXCEPT ![self] = TempDir(mem[other].name)]

\* TempDir(TempDir&& other): name(std::move(other.name)) { other.name.clear(); }
TempDir_move_ctor(mem, self, other) ==
    LET m1 == [mem EXCEPT ![self] = TempDir(mem[other].name)]
    IN  [m1 EXCEPT ![other].name = Empty]

\* TempDir& operator=(TempDir&& other)
TempDir_move_assign(mem, self, other) ==
    LET m1 == [mem EXCEPT ![self].name = mem[other].name]
    IN  [m1 EXCEPT ![other].name = Empty]

\* ~TempDir() that removes nothing.
TempDir_dtor_keep(obj, os) == os

\* ~TempDir()
TempDir_dtor(obj, os) ==
    IF obj.name # Empty THEN fs_remove(obj.name, os) ELSE os

\* --------------------------------------------------------------- factories
\* What the machine does during one factory call (the part the code does
\* not decide): k is the OS's answer to mkstemp/mkdtemp; on the fallback
\* platform the first `races` attempts lose the creation race and the next
\* one ends as `final` says ("created", "error", or "noname" when tmpnam_s
\* fails).
Choice(k, races, final) == [k |-> k, races |-> races, final |-> final]

AttemptOutcome(oc, i) == IF i < oc.races THEN "exists" ELSE oc.final

\* detail::make_filename(), defined(_WIN32).
make_filename_win32(os, fail) ==
    LET r == tmpnam_s(os, fail)
    IN  IF r.res # 0 THEN [name |-> Empty, os |-> r.os] ELSE [name |-> r.name, os |-> r.os]

\* try_make_tempfile without O_EXCL: the file is opened at the first
\* candidate name whether or not it exists.
try_make_tempfile_reuse(name_prefix, plat, e, os, oc) ==
    IF plat = "win32"
    THEN LET f == make_filename_win32(os, oc.final = "noname")
         IN  IF f.name = Empty THEN nullopt(f.os) ELSE some(TempFile(f.name, NoFd), f.os)
    ELSE LET filename == make_filename(name_prefix, e)
             r == mkstemp(filename, os, IF oc.k < 0 THEN oc.k ELSE 0)
         IN  IF r.fd = -1 THEN nullopt(r.os) ELSE some(TempFile(r.name, r.fd), r.os)

\* try_make_tempfile(name_prefix)
try_make_tempfile(name_prefix, plat, e, os, oc) ==
    IF plat = "win32"
    THEN LET f == make_filename_win32(os, oc.final = "noname")
         IN  IF f.name = Empty THEN nullopt(f.os)
             ELSE some(TempFile(f.name, NoFd), f.os)
    ELSE LET filename == make_filename(name_prefix, e)
         IN  IF filename = Empty THEN nullopt(os)
             ELSE LET r == mkstemp(filename, os, oc.k)
                  IN  IF r.fd = -1 THEN nullopt(r.os)
                      ELSE some(TempFile(r.name, r.fd), r.os)

\* The result of a throwing factory: thrown = TRUE is the c10::Error raised
\* by TORCH_CHECK(false, ...); tried is what the fallible factory returned.
Returned(t) == [thrown |-> FALSE, value |-> t.value, os |-> t.os, tried |-> t.has_value]
Thrown(t) == [thrown |-> TRUE, value |-> NoObj, os |-> t.os, tried |-> t.has_value]

\* make_tempfile(name_prefix)
make_tempfile(name_prefix, plat, e, os, oc) ==
    LET tempfile == try_make_tempfile(name_prefix, plat, e, os, oc)
    IN  IF tempfile.has_value THEN Returned(tempfile) ELSE Thrown(tempfile)

\* The loop body with the test of GetLastError() dropped: every failed
\* creation is retried.
tempdir_attempt_retry_all(os, outcome) ==
    LET f == make_filename_win32(os, outcome = "noname")
    IN  IF f.name = Empty THEN [then |-> "return", result |-> nullopt(f.os)]
        ELSE LET c == create_directories(f.name, f.os, outcome)
             IN  IF c.created
                 THEN [then |-> "return", result |-> some(TempDir(f.name), c.os)]
                 ELSE [then |-> "continue", result |-> nullopt(c.os)]

\* One iteration of the loop of try_make_tempdir, defined(_WIN32):
\* "return" leaves the function with result, "continue" goes on to i + 1.
tempdir_attempt(os, outcome) ==
    LET f == make_filename_win32(os, outcome = "noname")
    IN  IF f.name = Empty THEN [then |-> "return", result |-> nullopt(f.os)]
        ELSE LET c == create_directories(f.name, f.os, outcome)
             IN  IF c.created
                 THEN [then |-> "return", result |-> some(TempDir(f.name), c.os)]
                 ELSE IF c.lastError # "ERROR_ALREADY_EXISTS"
                 THEN [then |-> "return", result |-> nullopt(c.os)]
                 ELSE [then |-> "continue", result |-> nullopt(c.os)]

\* for (int i = 0; i < 100; i++) { ... } return c10::nullopt;
RECURSIVE tempdir_loop(_, _, _)
tempdir_loop(i, os, oc) ==
    IF i >= MaxAttempts THEN nullopt(os)
    ELSE LET a == tempdir_attempt(os, AttemptOutcome(oc, i))
         IN  IF a.then = "return" THEN a.result
             ELSE tempdir_loop(i + 1, a.result.os, oc)

\* try_make_tempdir(name_prefix)
try_make_tempdir(name_prefix, plat, e, os, oc) ==
    IF plat = "win32" THEN tempdir_loop(0, os, oc)
    ELSE LET filename == make_filename(name_prefix, e)
             r == mkdtemp(filename, os, oc.k)
         IN  IF ~r.ok THEN nullopt(r.os) ELSE some(TempDir(r.name), r.os)

\* make_tempdir that hands out an empty TempDir instead of raising.
make_tempdir_silent(name_prefix, plat, e, os, oc) ==
    LET tempdir == try_make_tempdir(name_prefix, plat, e, os, oc)
    IN  IF tempdir.has_value THEN Returned(tempdir)
        ELSE [Returned(tempdir) EXCEPT !.value = TempDir(Empty)]

\* make_tempdir(name_prefix)
make_tempdir(name_prefix, plat, e, os, oc) ==
    LET tempdir == try_make_tempdir(name_prefix, plat, e, os, oc)
    IN  IF tempdir.has_value THEN Returned(tempdir) ELSE Thrown(tempdir)

\* ----------------------------------------------------------------- actions
\* The record kept of an operation: self is the location it constructs,
\* assigns to or destroys, other the location it moves from, before the
\* value it consumed (the moved-from or destroyed one, as it was), value
\* the value it produced.
Op(op, self, other, prefix, before, value, has_value, thrown) ==
    [op |-> op, self |-> self, other |-> other, prefix |-> prefix, before |-> before,
     value |-> value, has_value |-> has_value, thrown |-> thrown]

NoOp == Op("none", 0, 0, Empty, NoObj, NoObj, FALSE, FALSE)
Idle == [pc |-> "idle", i |-> 0, attempts |-> 0, outcome |-> "none", has_value |-> FALSE]

ApplyOs(os) ==
    /\ files' = os.files
    /\ dirs' = os.dirs
    /\ openFds' = os.fds
    /\ tmpnamCount' = os.tmpnam

\* A new value is constructed in the first free storage location (the
\* locations are interchangeable).
Free(s) == objs[s] = NoObj /\ \A t \in Slots : t < s => objs[t] # NoObj

\* tmpnam_s can always fail, and does once it generated MaxTmpnam names.
NameFinals == {"noname"} \cup (IF tmpnamCount < MaxTmpnam THEN {"created"} ELSE {})

FileChoices(prefix) ==
    IF platform = "win32" THEN {Choice(-1, 0, f) : f \in NameFinals}
    ELSE {Choice(k, 0, "created") : k \in CreateChoices(make_filename(prefix, env), OsState)}

DirChoices(prefix) ==
    IF platform = "win32"
    THEN IF tmpnamCount < MaxTmpnam
         THEN {Choice(-1, n, f) : n \in 0..MaxRaces, f \in {"created", "error", "noname"}}
         ELSE {Choice(-1, 0, "noname")}
    ELSE {Choice(k, 0, "created") : k \in CreateChoices(make_filename(prefix, env), OsState)}

TryMakeTempfile ==
    \E s \in Slots, prefix \in MainPrefixes :
        /\ Free(s)
        /\ \E oc \in FileChoices(prefix) :
              LET r == try_make_tempfile(prefix, platform, env, OsState, oc)
              IN  /\ ApplyOs(r.os)
                  /\ objs' = [objs EXCEPT ![s] = r.value]
                  /\ last' = Op("try_make_tempfile", s, s, prefix, NoObj, r.value,
                                r.has_value, FALSE)
        /\ UNCHANGED <<platform, env, returned, loop>>

\* make_tempfile called; with record, the path it returns is added to the
\* history `returned`.
MakeTempfileCall(record) ==
    \E s \in Slots, prefix \in MainPrefixes :
        /\ Free(s)
        /\ \E oc \in FileChoices(prefix) :
              LET r == make_tempfile(prefix, platform, env, OsState, oc)
              IN  /\ ApplyOs(r.os)
                  /\ objs' = [objs EXCEPT ![s] = r.value]
                  /\ last' = Op("make_tempfile", s, s, prefix, NoObj, r.value,
                                r.tried, r.thrown)
                  /\ returned' = IF record /\ ~r.thrown
                                 THEN returned \cup {r.value.name}
                                 ELSE returned
        /\ UNCHANGED <<platform, env, loop>>

MakeTempfile == MakeTempfileCall(FALSE)

MakeTempfileRecorded == MakeTempfileCall(TRUE)

TryMakeTempdir ==
    \E s \in Slots, prefix \in MainPrefixes :
        /\ Free(s)
        /\ \E oc \in DirChoices(prefix) :
              LET r == try_make_tempdir(prefix, platform, env, OsState, oc)
              IN  /\ ApplyOs(r.os)
                  /\ objs' = [objs EXCEPT ![s] = r.value]
                  /\ last' = Op("try_make_tempdir", s, s, prefix, NoObj, r.value,
                                r.has_value, FALSE)
        /\ UNCHANGED <<platform, env, returned, loop>>

MakeTempdir ==
    \E s \in Slots, prefix \in MainPrefixes :
        /\ Free(s)
        /\ \E oc \in DirChoices(prefix) :
              LET r == make_tempdir(prefix, platform, env, OsState, oc)
              IN  /\ ApplyOs(r.os)
                  /\ objs' = [objs EXCEPT ![s] = r.value]
                  /\ last' = Op("make_tempdir", s, s, prefix, NoObj, r.value,
                                r.tried, r.thrown)
        /\ UNCHANGED <<platform, env, returned, loop>>

TempFileMoveCtor ==
    \E self \in Slots, other \in Slots :
        /\ Free(self)
        /\ objs[other].kind = "TempFile"
        /\ objs' = TempFile_move_ctor(objs, self, other)
        /\ last' = Op("TempFile(TempFile&&)", self, other, Empty, objs[other],
                      objs'[self], FALSE, FALSE)
        /\ UNCHANGED <<platform, env, files, dirs, openFds, tmpnamCount, returned, loop>>

TempFileMoveAssign ==
    \E self \in Slots, other \in Slots :
        /\ objs[self].kind = "TempFile"
        /\ objs[other].kind = "TempFile"
        /\ objs' = TempFile_move_assign(objs, self, other)
        /\ last' = Op("TempFile::operator=", self, other, Empty, objs[other],
                      objs'[self], FALSE, FALSE)
        /\ UNCHANGED <<platform, env, files, dirs, openFds, tmpnamCount, returned, loop>>

TempFileDtor ==
    \E self \in Slots :
        /\ objs[self].kind = "TempFile"
        /\ ApplyOs(TempFile_dtor(objs[self], OsState, platform))
        /\ objs' = [objs EXCEPT ![self] = NoObj]
        /\ last' = Op("~TempFile", self, self, Empty, objs[self], NoObj, FALSE, FALSE)
        /\ UNCHANGED <<platform, env, returned, loop>>

TempDirMoveCtor ==
    \E self \in Slots, other \in Slots :
        /\ Free(self)
        /\ objs[other].kind = "TempDir"
        /\ objs' = TempDir_move_ctor(objs, self, other)
        /\ last' = Op("TempDir(TempDir&&)", self, other, Empty, objs[other],
                      objs'[self], FALSE, FALSE)
        /\ UNCHANGED <<platform, env, files, dirs, openFds, tmpnamCount, returned, loop>>

TempDirMoveAssign ==
    \E self \in Slots, other \in Slots :
        /\ objs[self].kind = "TempDir"
        /\ objs[other].kind = "TempDir"
        /\ objs' = TempDir_move_assign(objs, self, other)
        /\ last' = Op("TempDir::operator=", self, other, Empty, objs[other],
                      objs'[self], FALSE, FALSE)
        /\ UNCHANGED <<platform, env, files, dirs, openFds, tmpnamCount, returned, loop>>

TempDirDtor ==
    \E self \in Slots :
        /\ objs[self].kind = "TempDir"
        /\ ApplyOs(TempDir_dtor(objs[self], OsState))
        /\ objs' = [objs EXCEPT ![self] = NoObj]
        /\ last' = Op("~TempDir", self, self, Empty, objs[self], NoObj, FALSE, FALSE)
        /\ UNCHANGED <<platform, env, returned, loop>>

\* Environments of the lifecycle specification: nothing set (base /tmp) and
\* a base directory that is not writable.
MainEnvs == {NoEnv, [NoEnv EXCEPT !["TMPDIR"] = SetTo(ReadOnlyDir)]}

Init ==
    /\ platform \in {"posix", "win32"}
    /\ env \in MainEnvs
    /\ platform = "win32" => env = NoEnv
    /\ files = {}
    /\ dirs = {}
    /\ openFds = {}
    /\ tmpnamCount = 0
    /\ objs = [s \in Slots |-> NoObj]
    /\ last = NoOp
    /\ returned = {}
    /\ loop = Idle

Next ==
    \/ TryMakeTempfile
    \/ MakeTempfile
    \/ TryMakeTempdir
    \/ MakeTempdir
    \/ TempFileMoveCtor
    \/ TempFileMoveAssign
    \/ TempFileDtor
    \/ TempDirMoveCtor
    \/ TempDirMoveAssign
    \/ TempDirDtor

Spec == Init /\ [][Next]_vars

\* The calls of make_tempfile with the history of the paths they returned,
\* what can happen to the values they returned, and the directories that
\* compete with them for names.
NextReturned ==
    \/ MakeTempfileRecorded
    \/ TryMakeTempfile
    \/ TempFileMoveCtor
    \/ TempFileMoveAssign
    \/ TempFileDtor
    \/ MakeTempdir
    \/ TempDirDtor

SpecReturned == Init /\ [][NextReturned]_vars

\* ------------------------------------------------- make_filename on its own
EnvInit ==
    /\ platform = "posix"
    /\ env \in AllEnvs
    /\ files = {}
    /\ dirs = {}
    /\ openFds = {}
    /\ tmpnamCount = 0
    /\ objs = [s \in Slots |-> NoObj]
    /\ last = NoOp
    /\ returned = {}
    /\ loop = Idle

\* One call of detail::make_filename(name_prefix); the record keeps the
\* local tmp_directory beside the string returned.
MakeFilename ==
    \E prefix \in Prefixes :
        /\ last' = Op("make_filename", 0, 0, prefix, NoObj,
                      [tmp_directory |-> tmp_directory(env),
                       filename |-> make_filename(prefix, env)], TRUE, FALSE)
        /\ UNCHANGED <<platform, env, files, dirs, openFds, tmpnamCount, objs, returned, loop>>

SpecEnv == EnvInit /\ [][MakeFilename]_vars

\* ------------------------------ try_make_tempdir (_WIN32), one attempt a step
AttemptOutcomes == {"created", "exists", "error", "noname"}

WinInit ==
    /\ platform = "win32"
    /\ env = NoEnv
    /\ files = {}
    /\ dirs = {}
    /\ openFds = {}
    /\ tmpnamCount = 0
    /\ objs = [s \in Slots |-> NoObj]
    /\ last = NoOp
    /\ returned = {}
    /\ loop = Idle

\* The call: int i = 0.
WinCall ==
    /\ loop.pc = "idle"
    /\ loop' = [loop EXCEPT !.pc = "loop"]
    /\ UNCHANGED <<platform, env, files, dirs, openFds, tmpnamCount, objs, last, returned>>

\* One pass through the loop body, i < 100.
WinAttempt ==
    /\ loop.pc = "loop"
    /\ loop.i < MaxAttempts
    /\ \E outcome \in AttemptOutcomes :
          LET a == tempdir_attempt(OsState, outcome)
          IN  /\ ApplyOs(a.result.os)
              /\ IF a.then = "return"
                 THEN /\ loop' = [pc |-> "done", i |-> loop.i, attempts |-> loop.attempts + 1,
                                  outcome |-> outcome, has_value |-> a.result.has_value]
                      /\ objs' = [objs EXCEPT ![1] = a.result.value]
                 ELSE /\ loop' = [pc |-> "loop", i |-> loop.i + 1,
                                  attempts |-> loop.attempts + 1,
                                  outcome |-> outcome, has_value |-> FALSE]
                      /\ objs' = objs
    /\ UNCHANGED <<platform, env, last, returned>>

\* i < 100 is false: return c10::nullopt.
WinExhausted ==
    /\ loop.pc = "loop"
    /\ loop.i >= MaxAttempts
    /\ loop' = [loop EXCEPT !.pc = "done", !.has_value = FALSE]
    /\ UNCHANGED <<platform, env, files, dirs, openFds, tmpnamCount, objs, last, returned>>

WinNext ==
    \/ WinCall
    \/ WinAttempt
    \/ WinExhausted

\* The call runs on the calling thread: it takes its next step whenever it
\* has one.
SpecWin == WinInit /\ [][WinNext]_vars /\ WF_vars(WinNext)

\* ------------------------------------------------------------------ claims
TryOps == {"try_make_tempfile", "try_make_tempdir"}
MakeOps == {"make_tempfile", "make_tempdir"}
MoveOps == {"TempFile(TempFile&&)", "TempFile::operator=", "TempDir(TempDir&&)",
            "TempDir::operator="}
DtorOps == {"~TempFile", "~TempDir"}

Live(s) == objs[s] # NoObj
Owns(s) == Live(s) /\ objs[s].name # Empty

\* C1: a successful make_tempfile(P) returns a TempFile whose path names a
\* regular file that exists right after the call and, where prefixes are
\* honoured (POSIX), whose final component contains P.
C1_MakeTempfileNamesRegularFile ==
    (last.op = "make_tempfile" /\ ~last.thrown) =>
        /\ last.value.kind = "TempFile"
        /\ last.value.name \in files
        /\ platform = "posix" => Contains(FinalComponent(last.value.name), last.prefix)

\* C2: the directory of a TempDir exists as a directory while the value
\* that holds its path is alive, and exists no longer once that value has
\* been destroyed.
C2_TempDirExistsWhileAlive ==
    /\ \A s \in Slots :
          (Owns(s) /\ objs[s].kind = "TempDir") => objs[s].name \in dirs
    /\ (last.op = "~TempDir" /\ last.before.name # Empty) =>
          last.before.name \notin (dirs \cup files)

C2_Witness ==
    /\ last.op = "~TempDir"
    /\ last.before.name # Empty
    /\ \E s \in Slots : Owns(s) /\ objs[s].kind = "TempDir" /\ objs[s].name \in dirs

\* C3: after a TempFile with a non-empty path is destroyed, its file exists
\* no longer and its descriptor, when it has one (fd >= 0), is closed.
C3_TempFileRemovedAndClosed ==
    (last.op = "~TempFile" /\ last.before.name # Empty) =>
        /\ last.before.name \notin (files \cup dirs)
        /\ last.before.fd >= 0 => last.before.fd \notin openFds

C3_Witness ==
    /\ last.op = "~TempFile"
    /\ last.before.name # Empty
    /\ last.before.fd >= 0

\* C4: a move from one value to another transfers ownership: the
\* destination holds the path (and descriptor), the source holds nothing,
\* and nothing on the filesystem changes; destroying a value that holds no
\* path removes nothing and closes nothing; and an entry is removed in a
\* step exactly when that step destroys the value holding its path.
C4_MoveTransfersOwnership ==
    [][/\ (last'.op \in MoveOps /\ last'.self # last'.other) =>
             /\ objs'[last'.self].name = objs[last'.other].name
             /\ objs'[last'.other].name = Empty
             /\ objs'[last'.self].kind = "TempFile" =>
                   /\ objs'[last'.self].fd = objs[last'.other].fd
                   /\ objs'[last'.other].fd = NoFd
             /\ files' = files /\ dirs' = dirs /\ openFds' = openFds
       /\ (last'.op \in DtorOps /\ objs[last'.self].name = Empty) =>
             files' = files /\ dirs' = dirs /\ openFds' = openFds
       /\ \A p \in files \cup dirs :
             p \notin (files' \cup dirs') <=>
                (last'.op \in DtorOps /\ objs[last'.self].name = p)]_vars

\* The moved-from value has just been destroyed, and the entry is still
\* there, held by the value it was moved to.
C4_Witness ==
    /\ last.op \in DtorOps
    /\ last.before.name = Empty
    /\ \E s \in Slots : Owns(s) /\ objs[s].name \in files \cup dirs

\* C5 as stated: a successful make_tempfile never returns a path that an
\* earlier successful make_tempfile returned, whatever happened to the
\* earlier value.
C5_NeverSamePath ==
    [][(last'.op = "make_tempfile" /\ ~last'.thrown) =>
          last'.value.name \notin returned]_vars

\* C5 amended: a successful make_tempfile returns a path that named nothing
\* when it was called, so it differs from every earlier returned path whose
\* file still exists.
C5_NeverExistingPath ==
    [][(last'.op = "make_tempfile" /\ ~last'.thrown) =>
          /\ last'.value.name \notin (files \cup dirs)
          /\ \A p \in returned : p \in files => last'.value.name # p]_vars

C5_Witness ==
    /\ last.op = "make_tempfile"
    /\ ~last.thrown
    /\ \E p \in returned : p # last.value.name /\ p \in files

\* The base directory of the last call is not writable: no creation below
\* it can succeed.
PermanentFailure ==
    /\ platform = "posix"
    /\ ParentPath(make_filename(last.prefix, env)) \notin WritableDirs

\* C6: when creation cannot succeed (the base directory is not writable),
\* try_make_* returns the empty result without raising and make_* raises;
\* make_* raises exactly when try_make_* returned empty and otherwise
\* returns the owning value.

C6_EmptyOrRaise ==
    /\ (last.op \in TryOps) =>
          /\ ~last.thrown
          /\ last.has_value <=> last.value # NoObj
          /\ PermanentFailure => ~last.has_value
    /\ (last.op \in MakeOps) =>
          /\ last.thrown <=> ~last.has_value
          /\ PermanentFailure => last.thrown
          /\ ~last.thrown => (last.value # NoObj /\ last.value.name # Empty)
          /\ last.thrown => last.value = NoObj

C6_Witness ==
    /\ last.op = "make_tempdir"
    /\ last.thrown
    /\ PermanentFailure

\* The i-th variable of the list is set and none before it is.
FirstSet(i) ==
    /\ env[env_variables[i]].set
    /\ \A j \in 1..(i - 1) : ~env[env_variables[j]].set

NoneSet == \A i \in 1..Len(env_variables) : ~env[env_variables[i]].set

\* C7 as stated: the base directory is the value of the first of TMPDIR,
\* TMP, TEMP, TEMPDIR that is set, and is "/tmp" if and only if none is set.

C7_TmpIffNoneSet ==
    (last.op = "make_filename") =>
        /\ \A i \in 1..Len(env_variables) :
              FirstSet(i) => last.value.tmp_directory = env[env_variables[i]].val
        /\ last.value.tmp_directory = Tmp <=> NoneSet

\* C7 amended: the base directory is the value of the first variable that
\* is set (the empty string included), and is "/tmp" when none is set; it
\* is "/tmp" otherwise only when that first value is itself "/tmp".
C7_FirstSetOrTmp ==
    (last.op = "make_filename") =>
        /\ \A i \in 1..Len(env_variables) :
              FirstSet(i) => last.value.tmp_directory = env[env_variables[i]].val
        /\ NoneSet => last.value.tmp_directory = Tmp
        /\ last.value.tmp_directory = Tmp =>
              (NoneSet \/ \E i \in 1..Len(env_variables) :
                             FirstSet(i) /\ env[env_variables[i]].val = Tmp)

C7_Witness ==
    /\ last.op = "make_filename"
    /\ ~env["TMPDIR"].set
    /\ env["TMP"] = SetTo(Empty)
    /\ env["TEMP"] = SetTo(ReadOnlyDir)
    /\ last.value.tmp_directory = Empty

\* What C8 says of one state of the call: at most 100 attempts; the loop
\* goes on only after "already exists"; the call returns the owning TempDir
\* exactly when the last attempt created the directory, and otherwise the
\* empty result, at once after an error or a failed name generation and
\* after the 100th lost race.
C8_LoopState ==
    /\ loop.attempts <= MaxAttempts
    /\ loop.pc = "loop" =>
          /\ loop.attempts = loop.i
          /\ loop.attempts > 0 => loop.outcome = "exists"
    /\ loop.pc = "done" =>
          /\ loop.has_value <=> loop.outcome = "created"
          /\ loop.has_value =>
                (objs[1].kind = "TempDir" /\ objs[1].name # Empty /\ objs[1].name \in dirs)
          /\ ~loop.has_value => objs[1] = NoObj
          /\ loop.outcome \in {"error", "noname"} => loop.attempts = loop.i + 1
          /\ loop.outcome = "exists" => loop.attempts = MaxAttempts

\* C8: on the fallback platform try_make_tempdir always ends, after at most
\* 100 attempts: with an owning TempDir at the first attempt that creates
\* the directory, going on to the next attempt only after "already
\* exists", with the empty result at once on any other creation error or
\* when no name could be generated, and with the empty result after 100
\* attempts.
C8_BoundedRetry == []C8_LoopState /\ ((loop.pc = "loop") ~> (loop.pc = "done"))

C8_Witness ==
    /\ loop.pc = "done"
    /\ loop.attempts = MaxAttempts
    /\ loop.outcome = "exists"
    /\ ~loop.has_value

\* C9: every live value with a non-empty path names an entry that exists
\* and no other live value holds that path; destroying a value with an
\* empty path removes nothing and closes nothing.
C9_OwnedPathsExist ==
    [][/\ \A s \in Slots :
             (objs'[s] # NoObj /\ objs'[s].name # Empty) =>
                /\ objs'[s].kind = "TempFile" => objs'[s].name \in files'
                /\ objs'[s].kind = "TempDir" => objs'[s].name \in dirs'
                /\ \A t \in Slots \ {s} :
                      objs'[t] # NoObj => objs'[t].name # objs'[s].name
       /\ (last'.op \in DtorOps /\ objs[last'.self].name = Empty) =>
             files' = files /\ dirs' = dirs /\ openFds' = openFds]_vars

\* C10: once every value has been destroyed, no file or directory made by
\* a factory remains and no descriptor a factory returned is open.
C10_NoLeak ==
    (\A s \in Slots : objs[s] = NoObj) =>
        files = {} /\ dirs = {} /\ openFds = {}

====
